---- MODULE Spec2Model ----
(***************************************************************************)
(* The Strava API client of src/services/strava.ts: the class's fields,    *)
(* its constructor and its methods init, loginUser, getUserStats and       *)
(* fetchData, with the secret store, the OAuth token endpoint and the      *)
(* stats endpoint as the environment.                                      *)
(*                                                                         *)
(* JavaScript values are records tagged with their type (field t), so      *)
(* that undefined, null, strings, numbers and objects can be compared.     *)
(* Every method call is one action: the client is used by one caller that  *)
(* awaits each call before the next.                                       *)
(***************************************************************************)
EXTENDS Integers, Sequences, FiniteSets, TLC

\* ---------------------------------------------------------------- bounds
\* access / refresh tokens are "t0" .. "t<NumTokens-1>"
NumTokens == 2
\* athlete identifiers are 0 .. MaxAthlete (0 is the falsy identifier)
MaxAthlete == 1

\* ----------------------------------------------------- JavaScript values
Undefined == [t |-> "undefined"]
Null == [t |-> "null"]
Str(s) == [t |-> "string", s |-> s]
Num(n) == [t |-> "number", n |-> n]

\* JavaScript truthiness, as used by `if (x)` and `!x`
Truthy(v) ==
    /\ v.t \notin {"undefined", "null"}
    /\ ~(v.t = "string" /\ v.s = "")
    /\ ~(v.t = "number" /\ v.n = 0)

\* neither null nor undefined
Present(v) == v.t \notin {"undefined", "null"}

\* reading o.f throws a TypeError when o is undefined or null
CanRead(o) == o.t \notin {"undefined", "null"}

\* the value of o.f when it can be read
Get(o, f) == IF o.t = "object" /\ f \in DOMAIN o THEN o[f] ELSE Undefined

\* `${v}` inside a template literal
Interpolate(v) ==
    CASE v.t = "undefined" -> "undefined"
      [] v.t = "null" -> "null"
      [] v.t = "string" -> v.s
      [] v.t = "number" -> ToString(v.n)
      [] OTHER -> "[object Object]"

TypeError == [t |-> "object", k |-> "TypeError"]
SyntaxError == [t |-> "object", k |-> "SyntaxError"]

Tokens == {Str("t" \o ToString(i)) : i \in 0 .. NumTokens - 1}
AthleteIds == {Num(i) : i \in 0 .. MaxAthlete}

\* a value of the User interface (src/interfaces/user.ts)
User(access, refresh, expires, athlete, goal) ==
    [t |-> "object", k |-> "User", accessToken |-> access, refreshToken |-> refresh,
     expiresAt |-> expires, athleteId |-> athlete, goal |-> goal]

\* what a method call ended with: a returned [value, error] pair, or an
\* exception raised to the caller (a rejected promise)
Returned(v, e) == [kind |-> "returned", value |-> v, error |-> e]
Raised(e) == [kind |-> "raised", value |-> Undefined, error |-> e]
NoCall == [kind |-> "none", value |-> Undefined, error |-> Undefined]

\* ------------------------------------------------------------ environment
\* SecretString payloads the secret store can hold
CredentialsJSON == Str("{\"client_id\":\"id\",\"client_secret\":\"sec\"}")
EmptyObjectJSON == Str("{}")
NullJSON == Str("null")
NotJSON == Str("oops")

SecretStrings ==
    {Undefined, Str(""), CredentialsJSON, EmptyObjectJSON, NullJSON, NotJSON}

AWSError == [t |-> "object", k |-> "AWSError"]

\* the outcomes of secretsManager.getSecretValue(...).promise()
StoreReplies ==
    {[ok |-> TRUE, SecretString |-> s, error |-> Undefined] : s \in SecretStrings}
        \cup {[ok |-> FALSE, SecretString |-> Undefined, error |-> AWSError]}

\* JSON.parse: whether it throws a SyntaxError on the text, and its value
JSONparseThrows(s) == s \notin {CredentialsJSON, EmptyObjectJSON, NullJSON}

JSONparse(s) ==
    CASE s = CredentialsJSON ->
            [t |-> "object", k |-> "Secrets", client_id |-> Str("id"),
             client_secret |-> Str("sec")]
      [] s = EmptyObjectJSON -> [t |-> "object", k |-> "Secrets"]
      [] s = NullJSON -> Null

\* an error thrown by axios: error.response, error.request, error.message
AxiosError(response, request, message) ==
    [t |-> "object", k |-> "AxiosError", response |-> response, request |-> request,
     message |-> message]

Response(data) == [t |-> "object", k |-> "Response", data |-> data]
ClientRequest == [t |-> "object", k |-> "ClientRequest"]
ErrorBody == [t |-> "object", k |-> "Fault"]

\* the failures of an axios call: an error status (with or without the
\* request recorded), a request without a response, a failure before sending
AxiosErrors ==
    {AxiosError(Response(ErrorBody), ClientRequest, Str("Request failed")),
     AxiosError(Response(Null), Undefined, Str("Request failed"))}
        \cup {AxiosError(Undefined, ClientRequest, Str("timeout"))}
        \cup {AxiosError(Undefined, Undefined, m) : m \in {Str("bad config"), Str("")}}

StatsBody ==
    [t |-> "object", k |-> "Stats", recent_run_totals |-> Num(1), all_run_totals |-> Num(3),
     ytd_run_totals |-> Num(2)]

\* what one axios call ends with: a response (its data) or a thrown error
Resolved(data) == [ok |-> TRUE, data |-> data, error |-> Undefined]
Rejected(e) == [ok |-> FALSE, data |-> Undefined, error |-> e]

\* the states of the stats endpoint as a caller sees it
Upstreams ==
    {Resolved(d) : d \in {StatsBody, Null, Str("")}} \cup {Rejected(e) : e \in AxiosErrors}

\* the replies of the OAuth token endpoint: a user's new token triple, an
\* empty or null body, or a failure
OAuthUsers ==
    {User(a, a, Num(2), Undefined, Undefined) : a \in Tokens}

OAuthReplies ==
    {Resolved(d) : d \in OAuthUsers \cup {Null}}
        \cup {Rejected(e) : e \in {AxiosError(Response(ErrorBody), ClientRequest, Str("Request failed")),
                                   AxiosError(Undefined, ClientRequest, Str("timeout"))}}

\* ------------------------------------------------------------------ state
VARIABLES
    ctor,          \* the constructor: "none" (not run), "ok" (returned), "threw"
    ctorArgs,      \* the arguments the constructor was called with
    user,          \* this.user
    secrets,       \* this.secrets
    axiosStrava,   \* this.axiosStrava: the configuration given to axios.create
    upstream,      \* the state of the stats endpoint
    last,          \* the last method call: method, input, result, requests
    repeated,      \* the last call was of the same method as the call before it
    refreshed      \* the access token of the last successful loginUser, if any

vars == <<ctor, ctorArgs, user, secrets, axiosStrava, upstream, last, repeated, refreshed>>

\* a finished call of method op: the environment's reply to it, what it
\* ended with, the requests it issued and, for a stats request, the request
Call(op, input, out, sent, request) ==
    [op |-> op, input |-> input, out |-> out, sent |-> sent, request |-> request]

NoRequest == [method |-> "", url |-> <<>>, Authorization |-> <<>>]

\* `user: User;` and `secrets: Secrets;` declare fields and assign nothing
Init ==
    /\ ctor = "none"
    /\ ctorArgs = <<Undefined, Undefined>>
    /\ user = Undefined
    /\ secrets = Undefined
    /\ axiosStrava = Undefined
    /\ upstream \in Upstreams
    /\ last = Call("none", Undefined, NoCall, 0, NoRequest)
    /\ repeated = FALSE
    /\ refreshed = Undefined

\* o.f = v
SetField(o, f, v) == [x \in DOMAIN o \cup {f} |-> IF x = f THEN v ELSE o[x]]

\* The class assigns nothing to `user`. Where the build emits no own field
\* for the declaration, the read of this.user in the constructor finds a
\* `user` supplied on the prototype; this is the only way it is not undefined.
EmptyUser == [t |-> "object", k |-> "User"]

ProvidedUsers ==
    {EmptyUser, User(Str("t0"), Str("t0"), Num(1), Num(1), Num(5))}

ProvideUser(u) ==
    /\ ctor = "none"
    /\ user = Undefined
    /\ user' = u
    /\ UNCHANGED <<ctor, ctorArgs, secrets, axiosStrava, upstream, last, repeated, refreshed>>

\* the object passed to axios.create by the constructor
AxiosConfig(u) ==
    [baseURL |-> <<"https://www.strava.com/api/v3/athletes/", Interpolate(Get(u, "athleteId"))>>,
     Authorization |-> <<"Bearer ", Interpolate(Get(u, "accessToken"))>>]

\* this.user after `if (athleteId && accessToken) {...}`
ConstructorUser(u, athleteId, accessToken) ==
    IF Truthy(athleteId) /\ Truthy(accessToken)
    THEN SetField(SetField(u, "athleteId", athleteId), "accessToken", accessToken)
    ELSE u

\* the constructor throws a TypeError where it reads a field of this.user
\* and this.user is undefined: in the template literals, whatever the arguments
ConstructorThrows(u, athleteId, accessToken) == ~CanRead(u)

constructor(athleteId, accessToken) ==
    /\ ctor = "none"
    /\ ctorArgs' = <<athleteId, accessToken>>
    /\ IF ConstructorThrows(user, athleteId, accessToken)
       THEN /\ ctor' = "threw"
            /\ UNCHANGED <<user, axiosStrava>>
       ELSE /\ ctor' = "ok"
            /\ user' = ConstructorUser(user, athleteId, accessToken)
            /\ axiosStrava' = AxiosConfig(user')
    /\ UNCHANGED <<secrets, upstream, last, repeated, refreshed>>

\* ------------------------------------------------------------------- init
\* the number of times a method calls its remote service
Attempts(failed) == 1

\* what init returns for a reply of the secret store
initOut(reply) ==
    IF ~reply.ok THEN Returned(Null, reply.error)
    ELSE IF ~Truthy(reply.SecretString) THEN Returned(Null, Str("No secret string"))
    ELSE IF JSONparseThrows(reply.SecretString) THEN Returned(Null, SyntaxError)
    ELSE Returned(JSONparse(reply.SecretString), Null)

\* an init that clears this.secrets whenever it does not load new ones
initSecretsReset(old, reply) ==
    IF reply.ok /\ Truthy(reply.SecretString) /\ ~JSONparseThrows(reply.SecretString)
    THEN JSONparse(reply.SecretString)
    ELSE Undefined

\* this.secrets after init
initSecrets(old, reply) ==
    IF reply.ok /\ Truthy(reply.SecretString) /\ ~JSONparseThrows(reply.SecretString)
    THEN JSONparse(reply.SecretString)
    ELSE old

init(reply) ==
    /\ ctor = "ok"
    /\ secrets' = initSecrets(secrets, reply)
    /\ repeated' = (last.op = "init")
    /\ last' = Call("init", reply, initOut(reply), Attempts(~reply.ok), NoRequest)
    /\ UNCHANGED <<ctor, ctorArgs, user, axiosStrava, upstream, refreshed>>

\* -------------------------------------------------------------- loginUser
\* building config.url reads this.secrets.client_id before the try block
loginUserThrows(s) == ~CanRead(s)

OAuthRequest(s, refreshToken) ==
    [method |-> "post",
     url |-> <<"https://www.strava.com/oauth/token?client_id=", Interpolate(Get(s, "client_id")),
               "&client_secret=", Interpolate(Get(s, "client_secret")),
               "&refresh_token=", Interpolate(refreshToken), "&grant_type=refresh_token">>,
     Authorization |-> <<>>]

\* what loginUser returns for a reply of the token endpoint
loginUserOut(reply) ==
    IF reply.ok THEN Returned(reply.data, Null) ELSE Returned(Null, reply.error)

\* this.user after loginUser
loginUserUser(old, reply) == IF reply.ok THEN reply.data ELSE old

loginUser(refreshToken, reply) ==
    /\ ctor = "ok"
    /\ repeated' = (last.op = "loginUser")
    /\ IF loginUserThrows(secrets)
       THEN /\ last' = Call("loginUser", Undefined, Raised(TypeError), 0, NoRequest)
            /\ UNCHANGED <<user, refreshed>>
       ELSE /\ last' = Call("loginUser", reply, loginUserOut(reply), Attempts(~reply.ok),
                            OAuthRequest(secrets, refreshToken))
            /\ user' = loginUserUser(user, reply)
            /\ refreshed' = IF reply.ok /\ Present(Get(reply.data, "accessToken"))
                            THEN Get(reply.data, "accessToken")
                            ELSE refreshed
    /\ UNCHANGED <<ctor, ctorArgs, secrets, axiosStrava, upstream>>

\* ------------------------------------------------ getUserStats, fetchData
\* a catch block that looks at error.request before error.response
ClassifyRequestFirst(error) ==
    IF Truthy(error.request) THEN Str("No response received from the server.")
    ELSE IF Truthy(error.response) THEN Get(error.response, "data")
    ELSE error.message

\* the catch block of fetchData: the error value for a thrown error
Classify(error) ==
    IF Truthy(error.response) THEN Get(error.response, "data")
    ELSE IF Truthy(error.request) THEN Str("No response received from the server.")
    ELSE error.message

\* a fetchData whose answer depends on the call before it: a request made
\* right after another stats request is reported as unanswered
fetchDataOnce(reply) ==
    IF last.op = "getUserStats"
    THEN Returned(Null, Str("No response received from the server."))
    ELSE IF reply.ok THEN Returned(reply.data, Null)
    ELSE Returned(Null, Classify(reply.error))

\* what fetchData returns for the outcome of this.axiosStrava(config)
fetchData(reply) ==
    IF reply.ok THEN Returned(reply.data, Null) ELSE Returned(Null, Classify(reply.error))

\* the request axios sends for config on the instance made by the constructor
StatsRequest(instance, config) ==
    [method |-> config.method, url |-> instance.baseURL \o <<config.url>>,
     Authorization |-> instance.Authorization]

\* a getUserStats that keeps what it fetched in this.user, as loginUser does
getUserStatsStoring ==
    /\ ctor = "ok"
    /\ repeated' = (last.op = "getUserStats")
    /\ last' = Call("getUserStats", upstream, fetchData(upstream), Attempts(~upstream.ok),
                    StatsRequest(axiosStrava, [method |-> "get", url |-> "/stats"]))
    /\ user' = IF upstream.ok THEN upstream.data ELSE user
    /\ UNCHANGED <<ctor, ctorArgs, secrets, axiosStrava, upstream, refreshed>>

getUserStats ==
    /\ ctor = "ok"
    /\ repeated' = (last.op = "getUserStats")
    /\ last' = Call("getUserStats", upstream, fetchData(upstream), Attempts(~upstream.ok),
                    StatsRequest(axiosStrava, [method |-> "get", url |-> "/stats"]))
    /\ UNCHANGED <<ctor, ctorArgs, user, secrets, axiosStrava, upstream, refreshed>>

\* the stats endpoint changes what it answers
UpstreamChange(u) ==
    /\ u # upstream
    /\ upstream' = u
    /\ UNCHANGED <<ctor, ctorArgs, user, secrets, axiosStrava, last, repeated, refreshed>>

Next ==
    \/ \E u \in ProvidedUsers : ProvideUser(u)
    \/ \E a \in AthleteIds \cup {Undefined}, k \in Tokens \cup {Undefined} : constructor(a, k)
    \/ \E reply \in StoreReplies : init(reply)
    \/ \E r \in Tokens, reply \in OAuthReplies : loginUser(r, reply)
    \/ getUserStats
    \/ \E u \in Upstreams : UpstreamChange(u)

Spec == Init /\ [][Next]_vars

\* ================================================================ claims
\* a populated component of a returned pair: neither null nor undefined
Populated(v) == Present(v)

\* C1: every pair returned by init, loginUser and getUserStats has exactly
\* one of value and error populated, never both and never neither.
C1_OutcomeInvariant ==
    last.out.kind = "returned" => (Populated(last.out.value) # Populated(last.out.error))

\* C2: no call of init, loginUser or getUserStats raises an exception to its
\* caller; every call ends by returning a pair.
C2_NeverRaises == last.op \in {"init", "loginUser", "getUserStats"} => last.out.kind = "returned"

\* C3: a failed stats request is classified in priority order: the upstream
\* error body when a response was received, else "no response" when the
\* request was sent, else the setup message; a failure with both a response
\* and a request is classified as upstream-rejected.
C3_Classification ==
    (last.op = "getUserStats" /\ ~last.input.ok) =>
        LET e == last.input.error
        IN  /\ last.out.kind = "returned"
            /\ last.out.value = Null
            /\ (e.response # Undefined => last.out.error = e.response.data)
            /\ (e.response = Undefined /\ e.request # Undefined =>
                    last.out.error = Str("No response received from the server."))
            /\ (e.response = Undefined /\ e.request = Undefined =>
                    last.out.error = e.message)

\* C3 witness: a failure with both a response and a request was classified
C3_Witness ==
    /\ last.op = "getUserStats"
    /\ ~last.input.ok
    /\ last.input.error.response = Response(ErrorBody)
    /\ last.input.error.request = ClientRequest
    /\ last.out = Returned(Null, ErrorBody)

\* the payload parses into an object with a client id and a client secret
HasCredentialsShape(s) ==
    /\ Truthy(s)
    /\ ~JSONparseThrows(s)
    /\ Present(Get(JSONparse(s), "client_id"))
    /\ Present(Get(JSONparse(s), "client_secret"))

\* C4: init returns credentials if and only if the store returned a payload
\* that parses into the credentials shape; otherwise it returns an error
\* and no credentials.
C4_InitIff ==
    last.op = "init" =>
        IF last.input.ok /\ HasCredentialsShape(last.input.SecretString)
        THEN Populated(last.out.value) /\ ~Populated(last.out.error)
        ELSE ~Populated(last.out.value) /\ Populated(last.out.error)

\* C5: after a successful token refresh, every getUserStats request carries
\* the access token returned by that refresh as its bearer token.
C5_FreshToken ==
    (last.op = "getUserStats" /\ Present(refreshed)) =>
        last.request.Authorization = <<"Bearer ", Interpolate(refreshed)>>

\* C6: constructing a client succeeds with and without arguments, and with
\* both arguments given every getUserStats request is a GET to
\* /athletes/{athleteId}/stats carrying 'Bearer {accessToken}'.
C6_Constructor ==
    /\ ctor # "threw"
    /\ (last.op = "getUserStats" /\ Present(ctorArgs[1]) /\ Present(ctorArgs[2])) =>
            last.request =
                [method |-> "get",
                 url |-> <<"https://www.strava.com/api/v3/athletes/", Interpolate(ctorArgs[1]),
                           "/stats">>,
                 Authorization |-> <<"Bearer ", Interpolate(ctorArgs[2])>>]

\* C7: init issues at most one request to the secret store, loginUser
\* exactly one exchange with the token endpoint and getUserStats at most one
\* request to the stats endpoint, also after a failed attempt.
C7_NoRetry ==
    /\ last.op = "init" => last.sent <= 1
    /\ last.op = "loginUser" => last.sent = 1
    /\ last.op = "getUserStats" => last.sent <= 1

C11_RefreshKeepsIdentity ==
    [][(/\ ctor = "ok"
        /\ last'.op = "loginUser"
        /\ last'.out.kind = "returned"
        /\ Populated(last'.out.value)
        /\ user' # user) =>
            /\ Get(user', "athleteId") = Get(user, "athleteId")
            /\ Get(user', "goal") = Get(user, "goal")]_vars

\* C12: a call of init that returns an error leaves this.secrets as it was,
\* and a call of loginUser that returns an error (or raises) leaves the
\* whole user record as it was.
C12_UnchangedOnError ==
    [][/\ (last'.op = "init" /\ Populated(last'.out.error)) => secrets' = secrets
       /\ (last'.op = "loginUser" /\ (Populated(last'.out.error) \/ last'.out.kind = "raised")) =>
                user' = user]_vars

\* C12 witness: init returned an error on a client whose credentials had
\* been loaded by an earlier init, and they are still loaded
C12_Witness ==
    /\ last.op = "init"
    /\ repeated
    /\ Populated(last.out.error)
    /\ secrets = JSONparse(CredentialsJSON)

\* C13: getUserStats, whatever it returns, leaves this.secrets, this.user
\* and the request configuration (base URL, bearer header) as they were,
\* and loginUser leaves this.secrets as it was.
C13_ReadOnly ==
    [][/\ last'.op = "getUserStats" =>
            /\ secrets' = secrets
            /\ user' = user
            /\ axiosStrava' = axiosStrava
       /\ last'.op = "loginUser" => secrets' = secrets]_vars

\* C13 witness: a stats call answered with stats on a client with loaded
\* credentials and a refreshed user record, all still in place
C13_Witness ==
    /\ last.op = "getUserStats"
    /\ ~repeated
    /\ last.out = Returned(StatsBody, Null)
    /\ secrets = JSONparse(CredentialsJSON)
    /\ Present(refreshed)
    /\ Get(user, "accessToken") = refreshed

====
